---- MODULE Spec2Model ----
(***************************************************************************)
(* A model of the CHIP-8 machine of src/src/cpu.rs: the Cpu struct, its    *)
(* constructor, the fetch step and the instruction handlers.               *)
(*                                                                         *)
(* Every handler of cpu.rs is an operator handler(self) from the machine   *)
(* before the call to the machine after it, written statement by           *)
(* statement.  A Rust panic (an index out of bounds, an arithmetic         *)
(* overflow in a build with overflow checks) ends the handler at that      *)
(* statement: the fields written before it keep their new values and the   *)
(* field panic names the message.  In a build without overflow checks the  *)
(* arithmetic wraps in the width of its type.                              *)
(*                                                                         *)
(* The two large arrays, memory ([u8; 4096]) and graphics ([u8; 2048]),    *)
(* are kept as the function from the indices of their non-zero cells to    *)
(* those cells' values: ReadCell gives the value of any cell, 0 for a cell *)
(* that is not listed, and two arrays are equal iff their functions are.   *)
(* The bounds of an array are checked where the source indexes it.         *)
(***************************************************************************)
EXTENDS Integers, Sequences, FiniteSets, TLC

VARIABLES
    \* the fields of struct Cpu
    opcode, memory, register, address_register, program_counter, graphics,
    delay_timer, sound_timer, stack, stack_pointer, key,
    \* the build and the run
    overflow_checks,    \* TRUE: overflow panics (debug profile); FALSE: it wraps
    panicked,           \* "none", or the message of the panic that ended the run
    phase,              \* "new" | "fetch" | "execute" | "unit" | "done"
    \* history, read by the properties only
    last,               \* the operation that ran last
    handler,            \* the instruction handler that ran last
    args,               \* the arguments the operation that ran last was given
    prev,               \* the machine before the operation that ran last
    calls,              \* the program counters of the calls not yet returned from
    only_calls          \* TRUE while every handler that has run is call

cpu_vars == <<opcode, memory, register, address_register, program_counter,
              graphics, delay_timer, sound_timer, stack, stack_pointer, key>>

vars == <<opcode, memory, register, address_register, program_counter,
          graphics, delay_timer, sound_timer, stack, stack_pointer, key,
          overflow_checks, panicked, phase, last, handler, args, prev, calls,
          only_calls>>

----------------------------------------------------------------------------
(* Sizes and constants of cpu.rs *)

MemorySize == 4096
GraphicsSize == 2048
RegisterCount == 16
StackSize == 16
KeyCount == 16
FontsetSize == 80
ProgramStart == 512
U8 == 256
U16 == 65536

FONTSET ==
    << 240, 144, 144, 144, 240,    \* 0
        32,  96,  32,  32, 112,    \* 1
       240,  16, 240, 128, 240,    \* 2
       240,  16, 240,  16, 240,    \* 3
       144, 144, 240,  16,  16,    \* 4
       240, 128, 240,  16, 240,    \* 5
       240, 128, 240, 144, 240,    \* 6
       240,  16,  32,  64,  64,    \* 7
       240, 144, 240, 144, 240,    \* 8
       240, 144, 240,  16, 240,    \* 9
       240, 144, 240, 144, 144,    \* A
       224, 144, 224, 144, 224,    \* B
       240, 128, 128, 128, 240,    \* C
       224, 144, 144, 144, 224,    \* D
       240, 128, 240, 128, 240,    \* E
       240, 128, 240, 128, 128 >>  \* F

----------------------------------------------------------------------------
(* Integer operations of the source *)

RECURSIVE BitAnd(_, _)
\* a & b on naturals
BitAnd(a, b) ==
    IF a = 0 \/ b = 0 THEN 0
    ELSE (a % 2) * (b % 2) + 2 * BitAnd(a \div 2, b \div 2)

RECURSIVE BitOr(_, _)
\* a | b on naturals
BitOr(a, b) ==
    IF a = 0 /\ b = 0 THEN 0
    ELSE (IF a % 2 = 1 \/ b % 2 = 1 THEN 1 ELSE 0) + 2 * BitOr(a \div 2, b \div 2)

\* arr[i] of a large array, i within its bounds
ReadCell(arr, i) == IF i \in DOMAIN arr THEN arr[i] ELSE 0

\* the large array whose cells are those of cells, and 0 elsewhere
Pack(cells) ==
    [i \in {j \in DOMAIN cells : cells[j] # 0} |-> cells[i]]

\* v as u8
AsU8(v) == v % U8

\* the messages of the panics the handlers can raise
IndexOutOfBounds == "index out of bounds"
AddOverflow == "attempt to add with overflow"
SubOverflow == "attempt to subtract with overflow"

Panic(self, msg) == [self EXCEPT !.panic = msg]

Ok(self) == self.panic = "none"

\* the machine as one value, as &mut self
Self ==
    [opcode |-> opcode, memory |-> memory, register |-> register,
     address_register |-> address_register, program_counter |-> program_counter,
     graphics |-> graphics, delay_timer |-> delay_timer,
     sound_timer |-> sound_timer, stack |-> stack,
     stack_pointer |-> stack_pointer, key |-> key, panic |-> "none"]

\* the fields of self written back, and the panic, if any, recorded
Commit(self) ==
    /\ opcode' = self.opcode
    /\ memory' = self.memory
    /\ register' = self.register
    /\ address_register' = self.address_register
    /\ program_counter' = self.program_counter
    /\ graphics' = self.graphics
    /\ delay_timer' = self.delay_timer
    /\ sound_timer' = self.sound_timer
    /\ stack' = self.stack
    /\ stack_pointer' = self.stack_pointer
    /\ key' = self.key
    /\ panicked' = self.panic

\* self.program_counter += n
AdvancePc(self, n) ==
    IF self.program_counter + n >= U16
    THEN IF overflow_checks
         THEN Panic(self, AddOverflow)
         ELSE [self EXCEPT !.program_counter = (@ + n) % U16]
    ELSE [self EXCEPT !.program_counter = @ + n]

----------------------------------------------------------------------------
(* Cpu::new *)

\* Cpu::new with the loop that copies the font stopping one byte early
new_font_one_short ==
    [opcode |-> 0,
     memory |-> Pack([a \in 0..(MemorySize - 1) |->
                          IF a < FontsetSize - 1 THEN FONTSET[a + 1] ELSE 0]),
     register |-> [i \in 0..(RegisterCount - 1) |-> 0],
     address_register |-> 0,
     program_counter |-> ProgramStart,
     graphics |-> Pack([i \in 0..(GraphicsSize - 1) |-> 0]),
     delay_timer |-> 0,
     sound_timer |-> 0,
     stack |-> [i \in 0..(StackSize - 1) |-> 0],
     stack_pointer |-> 0,
     key |-> [i \in 0..(KeyCount - 1) |-> 0],
     panic |-> "none"]

new ==
    [opcode |-> 0,
     memory |-> Pack([a \in 0..(MemorySize - 1) |->
                          IF a < FontsetSize THEN FONTSET[a + 1] ELSE 0]),
     register |-> [i \in 0..(RegisterCount - 1) |-> 0],
     address_register |-> 0,
     program_counter |-> ProgramStart,
     graphics |-> Pack([i \in 0..(GraphicsSize - 1) |-> 0]),
     delay_timer |-> 0,
     sound_timer |-> 0,
     stack |-> [i \in 0..(StackSize - 1) |-> 0],
     stack_pointer |-> 0,
     key |-> [i \in 0..(KeyCount - 1) |-> 0],
     panic |-> "none"]

\* what the history keeps of the machine: its small fields
Snapshot ==
    [opcode |-> opcode, register |-> register,
     address_register |-> address_register, program_counter |-> program_counter,
     delay_timer |-> delay_timer, sound_timer |-> sound_timer, stack |-> stack,
     stack_pointer |-> stack_pointer, handler |-> handler, calls |-> calls]

Init ==
    /\ opcode = new.opcode
    /\ memory = new.memory
    /\ register = new.register
    /\ address_register = new.address_register
    /\ program_counter = new.program_counter
    /\ graphics = new.graphics
    /\ delay_timer = new.delay_timer
    /\ sound_timer = new.sound_timer
    /\ stack = new.stack
    /\ stack_pointer = new.stack_pointer
    /\ key = new.key
    /\ overflow_checks \in BOOLEAN
    /\ panicked = "none"
    /\ phase = "new"
    /\ last = "new"
    /\ handler = "none"
    /\ args = << >>
    /\ calls = << >>
    /\ only_calls = TRUE
    /\ prev = [opcode |-> 0, register |-> new.register, address_register |-> 0,
               program_counter |-> ProgramStart, delay_timer |-> 0,
               sound_timer |-> 0, stack |-> new.stack, stack_pointer |-> 0,
               handler |-> "none", calls |-> << >>]

----------------------------------------------------------------------------
(* The fetch step *)

\* fetch_opcode with the two bytes exchanged: the byte at pc is the low one
fetch_opcode_low_byte_first(self) ==
    IF self.program_counter >= MemorySize
    THEN Panic(self, IndexOutOfBounds)
    ELSE IF self.program_counter + 1 >= MemorySize
    THEN Panic(self, IndexOutOfBounds)
    ELSE [self EXCEPT !.opcode =
              ReadCell(self.memory, self.program_counter)
                  + ReadCell(self.memory, self.program_counter + 1) * 256]

\* fetch_opcode: memory[pc] << 8 | memory[pc + 1]; both reads are bounds-checked
\* and the opcode is assigned after them (pc + 1 cannot overflow u16: the first
\* read has panicked for every pc above 4095)
fetch_opcode(self) ==
    IF self.program_counter >= MemorySize
    THEN Panic(self, IndexOutOfBounds)
    ELSE IF self.program_counter + 1 >= MemorySize
    THEN Panic(self, IndexOutOfBounds)
    ELSE [self EXCEPT !.opcode =
              ReadCell(self.memory, self.program_counter) * 256
                  + ReadCell(self.memory, self.program_counter + 1)]

\* cycle with the step its last comment names: after the fetch, each timer
\* that is not 0 is decremented
cycle_updates_timers(self) ==
    LET s1 == fetch_opcode(self)
    IN  IF ~Ok(s1) THEN s1
        ELSE [s1 EXCEPT
                 !.delay_timer = IF @ > 0 THEN @ - 1 ELSE @,
                 !.sound_timer = IF @ > 0 THEN @ - 1 ELSE @]

\* cycle: the fetch, and nothing else (execute and timers are comments)
cycle(self) == fetch_opcode(self)

----------------------------------------------------------------------------
(* The instruction handlers *)

\* clear_screen with the loop writing the array next to the one it should:
\* memory[i] = 0 for the 2048 indices of the screen
clear_screen_clears_memory(self) ==
    AdvancePc([self EXCEPT !.memory =
                   Pack([a \in DOMAIN self.memory |->
                            IF a < GraphicsSize THEN 0 ELSE self.memory[a]])], 2)

clear_screen(self) ==
    AdvancePc([self EXCEPT !.graphics = Pack([i \in 0..(GraphicsSize - 1) |-> 0])], 2)

\* cpu_return with the two statements of the pop exchanged: the cell is read
\* before the pointer is decremented
cpu_return_reads_before_decrement(self) ==
    LET s1 == IF self.stack_pointer >= StackSize
              THEN Panic(self, IndexOutOfBounds)
              ELSE [self EXCEPT !.program_counter = self.stack[self.stack_pointer]]
        s2 == IF ~Ok(s1) THEN s1
              ELSE IF s1.stack_pointer = 0
              THEN IF overflow_checks
                   THEN Panic(s1, SubOverflow)
                   ELSE [s1 EXCEPT !.stack_pointer = U16 - 1]
              ELSE [s1 EXCEPT !.stack_pointer = @ - 1]
    IN  IF ~Ok(s2) THEN s2 ELSE AdvancePc(s2, 2)

cpu_return(self) ==
    LET s1 == IF self.stack_pointer = 0
              THEN IF overflow_checks
                   THEN Panic(self, SubOverflow)
                   ELSE [self EXCEPT !.stack_pointer = U16 - 1]
              ELSE [self EXCEPT !.stack_pointer = @ - 1]
        s2 == IF ~Ok(s1) THEN s1
              ELSE IF s1.stack_pointer >= StackSize
              THEN Panic(s1, IndexOutOfBounds)
              ELSE [s1 EXCEPT !.program_counter = s1.stack[s1.stack_pointer]]
    IN  IF ~Ok(s2) THEN s2 ELSE AdvancePc(s2, 2)

\* 0x1NNN
jump(self) ==
    [self EXCEPT !.program_counter = BitAnd(self.opcode, 4095)]

\* call on a stack of 15 cells
call_fifteen_cells(self) ==
    IF self.stack_pointer >= StackSize - 1
    THEN Panic(self, IndexOutOfBounds)
    ELSE [self EXCEPT !.stack[self.stack_pointer] = self.program_counter,
                      !.stack_pointer = @ + 1,
                      !.program_counter = BitAnd(self.opcode, 4095)]

\* call with the jump made before the push
call_jumps_before_push(self) ==
    LET s1 == [self EXCEPT !.program_counter = BitAnd(self.opcode, 4095)]
    IN  IF s1.stack_pointer >= StackSize
        THEN Panic(s1, IndexOutOfBounds)
        ELSE [s1 EXCEPT !.stack[s1.stack_pointer] = self.program_counter,
                        !.stack_pointer = @ + 1]

\* 0x2NNN
call(self) ==
    IF self.stack_pointer >= StackSize
    THEN Panic(self, IndexOutOfBounds)
    ELSE [self EXCEPT !.stack[self.stack_pointer] = self.program_counter,
                      !.stack_pointer = @ + 1,
                      !.program_counter = BitAnd(self.opcode, 4095)]

\* 3XNN: skip the next instruction if VX == NN
skip_equal(self) ==
    LET x == BitAnd(self.opcode, 3840)
        val == BitAnd(self.opcode, 255)
    IN  IF x >= RegisterCount
        THEN Panic(self, IndexOutOfBounds)
        ELSE IF self.register[x] = AsU8(val)
             THEN LET s1 == AdvancePc(self, 2)
                  IN  IF ~Ok(s1) THEN s1 ELSE AdvancePc(s1, 2)
             ELSE AdvancePc(self, 2)

\* 4XNN: skip the next instruction if VX != NN
skip_not_equal(self) ==
    LET x == BitAnd(self.opcode, 3840)
        val == BitAnd(self.opcode, 255)
    IN  IF x >= RegisterCount
        THEN Panic(self, IndexOutOfBounds)
        ELSE IF self.register[x] # AsU8(val)
             THEN LET s1 == AdvancePc(self, 2)
                  IN  IF ~Ok(s1) THEN s1 ELSE AdvancePc(s1, 2)
             ELSE AdvancePc(self, 2)

\* 5XY0: skip the next instruction if VX == VY
skip_regs_equal(self) ==
    LET x == BitAnd(self.opcode, 3840)
        y == BitAnd(self.opcode, 240)
    IN  IF x >= RegisterCount \/ y >= RegisterCount
        THEN Panic(self, IndexOutOfBounds)
        ELSE IF self.register[x] = self.register[y]
             THEN LET s1 == AdvancePc(self, 2)
                  IN  IF ~Ok(s1) THEN s1 ELSE AdvancePc(s1, 2)
             ELSE AdvancePc(self, 2)

\* 6XNN: set VX = NN
set_vx_num(self) ==
    LET x == BitAnd(self.opcode, 3840)
        val == BitAnd(self.opcode, 255)
    IN  IF x >= RegisterCount
        THEN Panic(self, IndexOutOfBounds)
        ELSE AdvancePc([self EXCEPT !.register[x] = AsU8(val)], 2)

\* 7XNN: add NN to VX
add_vx_num(self) ==
    LET x == BitAnd(self.opcode, 3840)
        val == BitAnd(self.opcode, 255)
    IN  IF x >= RegisterCount
        THEN Panic(self, IndexOutOfBounds)
        ELSE IF self.register[x] + AsU8(val) >= U8
        THEN IF overflow_checks
             THEN Panic(self, AddOverflow)
             ELSE AdvancePc([self EXCEPT !.register[x] = (@ + AsU8(val)) % U8], 2)
        ELSE AdvancePc([self EXCEPT !.register[x] = @ + AsU8(val)], 2)

\* 0x8000 instructions: x and y are computed, nothing is called
opcode_8(self) ==
    AdvancePc(self, 2)

\* 8XY0: VX = VY
set_vx_vy(self, x, y) ==
    IF x >= RegisterCount \/ y >= RegisterCount
    THEN Panic(self, IndexOutOfBounds)
    ELSE [self EXCEPT !.register[x] = self.register[y]]

\* 8XY1: VX = VX | VY
set_vx_or(self, x, y) ==
    IF x >= RegisterCount \/ y >= RegisterCount
    THEN Panic(self, IndexOutOfBounds)
    ELSE [self EXCEPT !.register[x] = BitOr(@, self.register[y])]

\* 8XY2: VX = VX & VY
set_vx_and(self, x, y) ==
    IF x >= RegisterCount \/ y >= RegisterCount
    THEN Panic(self, IndexOutOfBounds)
    ELSE [self EXCEPT !.register[x] = BitAnd(@, self.register[y])]

\* 8XY3: the body is that of set_vx_and, the operator is &
set_vx_xor(self, x, y) ==
    IF x >= RegisterCount \/ y >= RegisterCount
    THEN Panic(self, IndexOutOfBounds)
    ELSE [self EXCEPT !.register[x] = BitAnd(@, self.register[y])]

\* 8XY4: VX += VY with the carry flag
add_vx_vy(self, x, y) ==
    IF x >= RegisterCount \/ y >= RegisterCount
    THEN Panic(self, IndexOutOfBounds)
    ELSE IF self.register[x] + self.register[y] >= U8 /\ overflow_checks
    THEN Panic(self, AddOverflow)
    ELSE LET s1 == [self EXCEPT !.register[x] = (@ + self.register[y]) % U8]
         IN  IF s1.register[x] < s1.register[y]
             THEN [s1 EXCEPT !.register[15] = 1]
             ELSE [s1 EXCEPT !.register[15] = 0]

\* 8XY5: the borrow flag is written first, then VX -= VY on the registers
\* as the flag write left them
sub_vx_vy(self, x, y) ==
    IF x >= RegisterCount \/ y >= RegisterCount
    THEN Panic(self, IndexOutOfBounds)
    ELSE LET s1 == IF self.register[x] < self.register[y]
                   THEN [self EXCEPT !.register[15] = 0]
                   ELSE [self EXCEPT !.register[15] = 1]
         IN  IF s1.register[x] < s1.register[y] /\ overflow_checks
             THEN Panic(s1, SubOverflow)
             ELSE [s1 EXCEPT !.register[x] = (@ + U8 - s1.register[y]) % U8]

\* 8XY6: VF = low bit of VX, then VX >>= 1
shr_vx(self, x, y) ==
    IF x >= RegisterCount
    THEN Panic(self, IndexOutOfBounds)
    ELSE LET s1 == [self EXCEPT !.register[15] = BitAnd(self.register[x], 1)]
         IN  [s1 EXCEPT !.register[x] = @ \div 2]

\* 8XY7: the borrow flag is written first, then VX = VY - VX
sub_vy_vx(self, x, y) ==
    IF x >= RegisterCount \/ y >= RegisterCount
    THEN Panic(self, IndexOutOfBounds)
    ELSE LET s1 == IF self.register[y] < self.register[x]
                   THEN [self EXCEPT !.register[15] = 0]
                   ELSE [self EXCEPT !.register[15] = 1]
         IN  IF s1.register[y] < s1.register[x] /\ overflow_checks
             THEN Panic(s1, SubOverflow)
             ELSE [s1 EXCEPT !.register[x] = (s1.register[y] + U8 - @) % U8]

\* 8XYE: VF = VX & 0x80, then VX <<= 1 (a shift drops the high bit in
\* either build)
shl_vx(self, x, y) ==
    IF x >= RegisterCount
    THEN Panic(self, IndexOutOfBounds)
    ELSE LET s1 == [self EXCEPT !.register[15] = BitAnd(self.register[x], 128)]
         IN  [s1 EXCEPT !.register[x] = (@ * 2) % U8]

\* 9XY0: skip the next instruction if VX != VY
skip_regs_not_equal(self) ==
    LET x == BitAnd(self.opcode, 3840)
        y == BitAnd(self.opcode, 240)
    IN  IF x >= RegisterCount \/ y >= RegisterCount
        THEN Panic(self, IndexOutOfBounds)
        ELSE IF self.register[x] # self.register[y]
             THEN LET s1 == AdvancePc(self, 2)
                  IN  IF ~Ok(s1) THEN s1 ELSE AdvancePc(s1, 2)
             ELSE AdvancePc(self, 2)

\* ANNN: set the address register
set_adr_reg(self) ==
    AdvancePc([self EXCEPT !.address_register = BitAnd(self.opcode, 4095)], 2)

\* BNNN: jump to NNN + V0
jump_add(self) ==
    [self EXCEPT !.program_counter = BitAnd(self.opcode, 4095) + self.register[0]]

\* EX9E and EXA1: not implemented, the body is empty
skip_key_press(self) == self

\* 0xF000 instructions: x is computed, nothing is called
opcode_f(self) ==
    AdvancePc(self, 2)

\* FX07: VX = delay_timer
set_vx_delay(self, x) ==
    IF x >= RegisterCount
    THEN Panic(self, IndexOutOfBounds)
    ELSE [self EXCEPT !.register[x] = self.delay_timer]

\* FX0A: not implemented, the body is empty
set_vx_key(self, x) == self

\* FX15: delay_timer = VX
set_delay_vx(self, x) ==
    IF x >= RegisterCount
    THEN Panic(self, IndexOutOfBounds)
    ELSE [self EXCEPT !.delay_timer = self.register[x]]

\* FX18: sound_timer = VX
set_sound_vx(self, x) ==
    IF x >= RegisterCount
    THEN Panic(self, IndexOutOfBounds)
    ELSE [self EXCEPT !.sound_timer = self.register[x]]

\* FX1E: address_register += VX
add_adr_reg(self, x) ==
    IF x >= RegisterCount
    THEN Panic(self, IndexOutOfBounds)
    ELSE IF self.address_register + self.register[x] >= U16
    THEN IF overflow_checks
         THEN Panic(self, AddOverflow)
         ELSE [self EXCEPT !.address_register = (@ + self.register[x]) % U16]
    ELSE [self EXCEPT !.address_register = @ + self.register[x]]

----------------------------------------------------------------------------
(* The programs run *)

MaxNest == 17       \* the deepest nest of calls a program makes

\* the 8-bit immediates and register contents the programs use
Bytes == {0, 5, 255}

Op(family, x, nn) == family * 4096 + x * 256 + nn

OpXY(family, x, y) == family * 4096 + x * 256 + y * 16

\* address of the i-th instruction (from 1) of a loaded program
AddrOf(i) == ProgramStart + 2 * (i - 1)

\* k nested calls, each followed by a return: instruction 2j-1 calls
\* instruction 2j+1, instruction 2j returns, and the last instruction returns
Nest(k) ==
    [i \in 1..(2 * k + 1) |->
        IF i % 2 = 1 /\ i < 2 * k + 1 THEN Op(2, 0, 0) + AddrOf(i + 2) ELSE 238]

\* a routine that calls itself
Recurse == << Op(2, 0, 0) + ProgramStart >>

\* one instruction of each implemented family, on V0
Straight ==
    << Op(6, 0, 5), 224, Op(3, 0, 5), Op(1, 0, 0), Op(3, 0, 6), Op(4, 0, 5),
       Op(4, 0, 6), Op(1, 0, 0), OpXY(5, 0, 0), Op(1, 0, 0), OpXY(9, 0, 0),
       Op(7, 0, 3), Op(10, 1, 35), Op(8, 1, 36), Op(15, 0, 7), Op(7, 0, 255),
       Op(14, 0, 158) >>

\* the register selectors
Regs == 0..(RegisterCount - 1)

\* V0 := v, then one instruction naming register x and the immediate nn
OnReg ==
    {<< Op(6, 0, v), Op(f, x, nn) >> :
        v \in Bytes, f \in {3, 4, 6, 7}, x \in Regs, nn \in Bytes}

\* V0 := v, then one instruction naming registers x and y
OnRegs ==
    {<< Op(6, 0, v), OpXY(f, x, y) >> :
        v \in Bytes, f \in {5, 9}, x \in Regs, y \in Regs}

\* jumps to the last addresses of memory, to the font, past the end
Far ==
    { << Op(1, 15, 255) >>,
      << Op(1, 0, 0) >>,
      << Op(6, 0, 255), Op(11, 15, 255) >>,
      [i \in 1..((MemorySize - ProgramStart) \div 2) |->
          IF i = 1 THEN Op(1, 15, 254)
          ELSE IF i = (MemorySize - ProgramStart) \div 2 THEN 224 ELSE 0] }

\* FX0A on each register: store a key press in VX
WaitKey == {<< Op(15, x, 10) >> : x \in Regs}

Programs ==
    {Nest(k) : k \in 0..MaxNest} \cup {Recurse, Straight} \cup OnReg \cup OnRegs
        \cup Far \cup WaitKey

\* the byte at offset k (from 0) of the image of program p, high byte first
ImageByte(p, k) ==
    IF k % 2 = 0 THEN p[k \div 2 + 1] \div 256 ELSE p[k \div 2 + 1] % 256

----------------------------------------------------------------------------
(* The host: it loads a program, then steps the machine *)

\* the handler of an opcode: the pattern in the comment above each handler
Decode(op) ==
    IF op = 224 THEN "clear_screen"
    ELSE IF op = 238 THEN "cpu_return"
    ELSE CASE op \div 4096 = 1 -> "jump"
           [] op \div 4096 = 2 -> "call"
           [] op \div 4096 = 3 -> "skip_equal"
           [] op \div 4096 = 4 -> "skip_not_equal"
           [] op \div 4096 = 5 -> "skip_regs_equal"
           [] op \div 4096 = 6 -> "set_vx_num"
           [] op \div 4096 = 7 -> "add_vx_num"
           [] op \div 4096 = 8 -> "opcode_8"
           [] op \div 4096 = 9 -> "skip_regs_not_equal"
           [] op \div 4096 = 10 -> "set_adr_reg"
           [] op \div 4096 = 11 -> "jump_add"
           [] op \div 4096 = 14 -> "skip_key_press"
           [] op \div 4096 = 15 -> "opcode_f"
           [] OTHER -> "none"

\* the history after operation name, given the arguments a; the operation is
\* an instruction handler iff is_handler
Record(name, is_handler, a) ==
    /\ last' = name
    /\ args' = a
    /\ prev' = Snapshot
    /\ only_calls' = (only_calls /\ (is_handler => name = "call"))
    /\ handler' = IF is_handler THEN name ELSE handler
    /\ calls' = IF panicked' # "none" THEN calls
                ELSE IF name = "call" THEN Append(calls, program_counter)
                ELSE IF name = "cpu_return" THEN SubSeq(calls, 1, Len(calls) - 1)
                ELSE calls
    /\ UNCHANGED overflow_checks

\* the program loader: the bytes of p from 0x200 on, before any step; a program
\* that does not fit is not loaded
load_program(p) ==
    /\ phase = "new"
    /\ 2 * Len(p) <= MemorySize - ProgramStart
    /\ LET image == ProgramStart..(ProgramStart + 2 * Len(p) - 1)
       IN  memory' = Pack([a \in DOMAIN memory \cup image |->
                              IF a \in image THEN ImageByte(p, a - ProgramStart)
                              ELSE memory[a]])
    /\ phase' = "fetch"
    /\ panicked' = panicked
    /\ UNCHANGED <<opcode, register, address_register, program_counter, graphics,
                   delay_timer, sound_timer, stack, stack_pointer, key>>
    /\ Record("load_program", FALSE, << >>)

\* the host calls cycle()
step_cycle ==
    /\ phase = "fetch"
    /\ panicked = "none"
    /\ Commit(cycle(Self))
    /\ phase' = "execute"
    /\ Record("cycle", FALSE, << >>)

\* the handler named name runs on the fetched opcode
Dispatch(name, after) ==
    /\ phase = "execute"
    /\ panicked = "none"
    /\ Decode(opcode) = name
    /\ Commit(after)
    /\ phase' = "fetch"
    /\ Record(name, TRUE, << >>)

exec_clear_screen == Dispatch("clear_screen", clear_screen(Self))
exec_cpu_return == Dispatch("cpu_return", cpu_return(Self))
exec_jump == Dispatch("jump", jump(Self))
exec_call == Dispatch("call", call(Self))
exec_skip_equal == Dispatch("skip_equal", skip_equal(Self))
exec_skip_not_equal == Dispatch("skip_not_equal", skip_not_equal(Self))
exec_skip_regs_equal == Dispatch("skip_regs_equal", skip_regs_equal(Self))
exec_set_vx_num == Dispatch("set_vx_num", set_vx_num(Self))
exec_add_vx_num == Dispatch("add_vx_num", add_vx_num(Self))
exec_opcode_8 == Dispatch("opcode_8", opcode_8(Self))
exec_skip_regs_not_equal == Dispatch("skip_regs_not_equal", skip_regs_not_equal(Self))
exec_set_adr_reg == Dispatch("set_adr_reg", set_adr_reg(Self))
exec_jump_add == Dispatch("jump_add", jump_add(Self))
exec_skip_key_press == Dispatch("skip_key_press", skip_key_press(Self))
exec_opcode_f == Dispatch("opcode_f", opcode_f(Self))

Next ==
    \/ \E p \in Programs : load_program(p)
    \/ step_cycle
    \/ exec_clear_screen
    \/ exec_cpu_return
    \/ exec_jump
    \/ exec_call
    \/ exec_skip_equal
    \/ exec_skip_not_equal
    \/ exec_skip_regs_equal
    \/ exec_set_vx_num
    \/ exec_add_vx_num
    \/ exec_opcode_8
    \/ exec_skip_regs_not_equal
    \/ exec_set_adr_reg
    \/ exec_jump_add
    \/ exec_skip_key_press
    \/ exec_opcode_f

Spec == Init /\ [][Next]_vars

----------------------------------------------------------------------------
(* cycle and the handlers, each called once on a machine whose registers   *)
(* and timers hold given bytes                                             *)

\* the bytes the registers are given
UnitBytes == {0, 1, 128, 255}

\* the registers that are given them; the others hold 0
UnitRegs == {1, 2, 15}

\* the registers the handlers are called on: those given a byte, and one of
\* those that hold 0
UnitArgs == UnitRegs \cup {0}

\* the timers: both stopped, or both running (delay, sound)
UnitTimers == {<<0, 0>>, <<7, 9>>}

InitUnit ==
    /\ opcode = new.opcode
    /\ memory = new.memory
    /\ register \in {[i \in Regs |-> IF i \in UnitRegs THEN f[i] ELSE 0] :
                        f \in [UnitRegs -> UnitBytes]}
    /\ address_register = new.address_register
    /\ program_counter = new.program_counter
    /\ graphics = new.graphics
    /\ \E t \in UnitTimers : delay_timer = t[1] /\ sound_timer = t[2]
    /\ stack = new.stack
    /\ stack_pointer = new.stack_pointer
    /\ key = new.key
    /\ overflow_checks \in BOOLEAN
    /\ panicked = "none"
    /\ phase = "unit"
    /\ last = "new"
    /\ handler = "none"
    /\ args = << >>
    /\ calls = << >>
    /\ only_calls = TRUE
    /\ prev = [opcode |-> 0, register |-> new.register, address_register |-> 0,
               program_counter |-> ProgramStart, delay_timer |-> 0,
               sound_timer |-> 0, stack |-> new.stack, stack_pointer |-> 0,
               handler |-> "none", calls |-> << >>]

\* the handler named name is called with the arguments a
Call(name, after, a) ==
    /\ phase = "unit"
    /\ panicked = "none"
    /\ Commit(after)
    /\ phase' = "done"
    /\ Record(name, TRUE, a)

unit_set_vx_vy ==
    \E x \in UnitArgs, y \in UnitArgs : Call("set_vx_vy", set_vx_vy(Self, x, y), <<x, y>>)

unit_set_vx_or ==
    \E x \in UnitArgs, y \in UnitArgs : Call("set_vx_or", set_vx_or(Self, x, y), <<x, y>>)

unit_set_vx_and ==
    \E x \in UnitArgs, y \in UnitArgs : Call("set_vx_and", set_vx_and(Self, x, y), <<x, y>>)

unit_set_vx_xor ==
    \E x \in UnitArgs, y \in UnitArgs : Call("set_vx_xor", set_vx_xor(Self, x, y), <<x, y>>)

unit_add_vx_vy ==
    \E x \in Regs, y \in Regs : Call("add_vx_vy", add_vx_vy(Self, x, y), <<x, y>>)

unit_sub_vx_vy ==
    \E x \in UnitArgs, y \in UnitArgs : Call("sub_vx_vy", sub_vx_vy(Self, x, y), <<x, y>>)

unit_shr_vx ==
    \E x \in UnitArgs, y \in UnitArgs : Call("shr_vx", shr_vx(Self, x, y), <<x, y>>)

unit_sub_vy_vx ==
    \E x \in UnitArgs, y \in UnitArgs : Call("sub_vy_vx", sub_vy_vx(Self, x, y), <<x, y>>)

unit_shl_vx ==
    \E x \in UnitArgs, y \in UnitArgs : Call("shl_vx", shl_vx(Self, x, y), <<x, y>>)

unit_set_vx_delay ==
    \E x \in Regs : Call("set_vx_delay", set_vx_delay(Self, x), <<x>>)

unit_set_vx_key ==
    \E x \in Regs : Call("set_vx_key", set_vx_key(Self, x), <<x>>)

unit_set_delay_vx ==
    \E x \in Regs : Call("set_delay_vx", set_delay_vx(Self, x), <<x>>)

unit_set_sound_vx ==
    \E x \in Regs : Call("set_sound_vx", set_sound_vx(Self, x), <<x>>)

unit_add_adr_reg ==
    \E x \in Regs : Call("add_adr_reg", add_adr_reg(Self, x), <<x>>)

\* the handlers that read the opcode, called on the opcode of a new machine
unit_clear_screen == Call("clear_screen", clear_screen(Self), << >>)

unit_cpu_return == Call("cpu_return", cpu_return(Self), << >>)

unit_jump == Call("jump", jump(Self), << >>)

unit_call == Call("call", call(Self), << >>)

unit_skip_equal == Call("skip_equal", skip_equal(Self), << >>)

unit_skip_not_equal == Call("skip_not_equal", skip_not_equal(Self), << >>)

unit_skip_regs_equal == Call("skip_regs_equal", skip_regs_equal(Self), << >>)

unit_set_vx_num == Call("set_vx_num", set_vx_num(Self), << >>)

unit_add_vx_num == Call("add_vx_num", add_vx_num(Self), << >>)

unit_opcode_8 == Call("opcode_8", opcode_8(Self), << >>)

unit_skip_regs_not_equal == Call("skip_regs_not_equal", skip_regs_not_equal(Self), << >>)

unit_set_adr_reg == Call("set_adr_reg", set_adr_reg(Self), << >>)

unit_jump_add == Call("jump_add", jump_add(Self), << >>)

unit_skip_key_press == Call("skip_key_press", skip_key_press(Self), << >>)

unit_opcode_f == Call("opcode_f", opcode_f(Self), << >>)

\* one call of cycle()
unit_cycle ==
    /\ phase = "unit"
    /\ panicked = "none"
    /\ Commit(cycle(Self))
    /\ phase' = "done"
    /\ Record("cycle", FALSE, << >>)

NextUnit ==
    \/ unit_set_vx_vy
    \/ unit_set_vx_or
    \/ unit_set_vx_and
    \/ unit_set_vx_xor
    \/ unit_add_vx_vy
    \/ unit_sub_vx_vy
    \/ unit_shr_vx
    \/ unit_sub_vy_vx
    \/ unit_shl_vx
    \/ unit_set_vx_delay
    \/ unit_set_vx_key
    \/ unit_set_delay_vx
    \/ unit_set_sound_vx
    \/ unit_add_adr_reg
    \/ unit_clear_screen
    \/ unit_cpu_return
    \/ unit_jump
    \/ unit_call
    \/ unit_skip_equal
    \/ unit_skip_not_equal
    \/ unit_skip_regs_equal
    \/ unit_set_vx_num
    \/ unit_add_vx_num
    \/ unit_opcode_8
    \/ unit_skip_regs_not_equal
    \/ unit_set_adr_reg
    \/ unit_jump_add
    \/ unit_skip_key_press
    \/ unit_opcode_f
    \/ unit_cycle

SpecUnit == InitUnit /\ [][NextUnit]_vars

----------------------------------------------------------------------------
(* The fields of an opcode, as the instruction set defines them *)

RegX(op) == (op \div 256) % 16      \* bits 8-11
RegY(op) == (op \div 16) % 16       \* bits 4-7
Imm(op) == op % 256                 \* bits 0-7
Addr(op) == op % 4096               \* bits 0-11

\* the handlers that leave the sequence of instructions as it is
Sequential ==
    {"clear_screen", "set_vx_num", "add_vx_num", "opcode_8", "set_adr_reg",
     "opcode_f"}

Skips == {"skip_equal", "skip_not_equal", "skip_regs_equal", "skip_regs_not_equal"}

----------------------------------------------------------------------------
(* The properties *)

\* C1: when cycle() has returned on an instruction that does not redirect
\* control, the instruction has been executed: the program counter is 2 past
\* the instruction and 6XNN has set VX to NN, ANNN has set I to NNN.
C1_CycleExecutes ==
    (last = "cycle" /\ panicked = "none" /\ Decode(opcode) \in Sequential) =>
        /\ program_counter = prev.program_counter + 2
        /\ (Decode(opcode) = "set_vx_num" => register[RegX(opcode)] = Imm(opcode))
        /\ (Decode(opcode) = "set_adr_reg" => address_register = Addr(opcode))

\* C2: a return that follows a call restores the program counter of the call
\* plus 2 and the depth before the call, at every depth 0..15 and without a
\* fault; the stack holds the program counters of the calls not yet returned
\* from, oldest first, and each return takes the newest.
C2_CallThenReturn ==
    /\ (panicked = "none" =>
            /\ stack_pointer = Len(calls)
            /\ \A i \in 1..Len(calls) : stack[i - 1] = calls[i])
    /\ (last = "cpu_return" /\ panicked = "none" =>
            /\ program_counter = prev.calls[Len(prev.calls)] + 2
            /\ calls = SubSeq(prev.calls, 1, Len(prev.calls) - 1))
    /\ (last = "cpu_return" /\ prev.handler = "call" =>
            /\ panicked = "none"
            /\ stack_pointer = Len(prev.calls) - 1
            /\ stack_pointer \in 0..15)

\* C2's case: a call at depth 15, the return after it done.
C2_Witness ==
    /\ last = "cpu_return"
    /\ prev.handler = "call"
    /\ panicked = "none"
    /\ stack_pointer = 15
    /\ program_counter = prev.calls[16] + 2

\* C3 as claimed: from an empty stack and with calls only, the calls at
\* depth 0..14 succeed and the 16th call, at depth 15, faults.
C3_SixteenthCallFaults ==
    (last = "call" /\ only_calls) =>
        (panicked = "none" <=> prev.stack_pointer < 15)

\* C3, amended: from an empty stack and with calls only, the first 16 calls
\* (at depth 0..15) succeed and the 17th, at depth 16, faults.
C3_SeventeenthCallFaults ==
    (last = "call" /\ only_calls) =>
        /\ prev.stack_pointer \in 0..16
        /\ prev.stack_pointer = Len(prev.calls)
        /\ (panicked = "none" <=> prev.stack_pointer < 16)
        /\ (panicked = "none" => stack_pointer = prev.stack_pointer + 1)

\* C3's case: 16 calls and no other handler have run, and the 17th has faulted.
C3_Witness ==
    /\ last = "call"
    /\ only_calls
    /\ Len(calls) = 16
    /\ prev.stack_pointer = 16
    /\ panicked = IndexOutOfBounds

\* C4: a call at stack pointer 16 faults and changes no field of the
\* machine: no stack cell, not the stack pointer, the program counter, a
\* register, a memory byte, a timer or a framebuffer cell.
C4_OverflowKeepsState ==
    [][(stack_pointer = 16 /\ last' = "call") =>
            (panicked' = IndexOutOfBounds /\ UNCHANGED cpu_vars)]_vars

\* C4's case: a call has run at stack pointer 16.
C4_Witness ==
    /\ last = "call"
    /\ prev.stack_pointer = 16
    /\ panicked = IndexOutOfBounds
    /\ stack_pointer = 16

\* C5: a return at stack pointer 0 faults and leaves the stack pointer, the
\* program counter and the stack cells as they were.
C5_UnderflowKeepsState ==
    (last = "cpu_return" /\ prev.stack_pointer = 0) =>
        /\ panicked # "none"
        /\ stack_pointer = prev.stack_pointer
        /\ program_counter = prev.program_counter
        /\ stack = prev.stack

\* the condition of the skip that ran last, on the registers before it
SkipCondition ==
    LET vx == prev.register[RegX(prev.opcode)]
        vy == prev.register[RegY(prev.opcode)]
        nn == Imm(prev.opcode)
    IN  CASE last = "skip_equal" -> vx = nn
          [] last = "skip_not_equal" -> vx # nn
          [] last = "skip_regs_equal" -> vx = vy
          [] last = "skip_regs_not_equal" -> vx # vy

\* C6: every skip (3XNN, 4XNN, 5XY0, 9XY0), for every X and Y, completes and
\* advances the program counter by 4 when its condition holds and by 2 when
\* it does not.
C6_SkipAdvance ==
    last \in Skips =>
        /\ panicked = "none"
        /\ program_counter = prev.program_counter + (IF SkipCondition THEN 4 ELSE 2)

\* C7: 6XNN, for every X, sets the register bits 8-11 select to NN, leaves
\* the other registers and advances the program counter by 2.
C7_SetImmediate ==
    last = "set_vx_num" =>
        /\ panicked = "none"
        /\ register = [prev.register EXCEPT ![RegX(prev.opcode)] = Imm(prev.opcode)]
        /\ program_counter = prev.program_counter + 2

\* C8: the program counter is an address of memory, 0..4095.
C8_PcInMemory ==
    program_counter \in 0..(MemorySize - 1)

\* C9: the stack pointer is in 0..16, also after a return on an empty stack
\* and after a call on a full one.
C9_StackPointerInRange ==
    stack_pointer \in 0..StackSize

\* C10: 8XY4, for every X and Y (X = Y too) and every pair of bytes, completes,
\* leaves VF = 1 if VX + VY of the values before exceeds 255 and 0 if not,
\* and VX = (VX + VY) mod 256 (VF holding the flag when X is F).
C10_AddWithCarry ==
    last = "add_vx_vy" =>
        LET x == args[1]
            y == args[2]
            sum == prev.register[x] + prev.register[y]
        IN  /\ panicked = "none"
            /\ register[15] = (IF sum > 255 THEN 1 ELSE 0)
            /\ (x # 15 => register[x] = sum % 256)

\* C11: 8XY5, for every X and Y and every pair of bytes, completes, leaves
\* VF = 1 if VX >= VY of the values before and 0 if not, and
\* VX = (VX - VY) mod 256 of the values before (VF holding the flag when X
\* is F).
C11_SubWithBorrow ==
    last = "sub_vx_vy" =>
        LET x == args[1]
            y == args[2]
            vx == prev.register[x]
            vy == prev.register[y]
        IN  /\ panicked = "none"
            /\ register[15] = (IF vx >= vy THEN 1 ELSE 0)
            /\ (x # 15 => register[x] = (vx + 256 - vy) % 256)

\* C12: 7XNN, for every VX and NN, completes, leaves
\* VX = (VX + NN) mod 256 in the register bits 8-11 select, leaves the other
\* registers (VF too, when X is not F) and advances the program counter by 2.
C12_AddImmediateWraps ==
    last = "add_vx_num" =>
        LET x == RegX(prev.opcode)
        IN  /\ panicked = "none"
            /\ register = [prev.register EXCEPT
                              ![x] = (@ + Imm(prev.opcode)) % 256]
            /\ program_counter = prev.program_counter + 2

\* C13: FX0A waits for a key: executed while no key is pressed it leaves the
\* program counter and the registers as they were, so that the next step
\* presents it again, and executed once a key is pressed it stores the index
\* of that key in VX and advances the program counter by 2.
C13_WaitForKey ==
    (last = "opcode_f" /\ Imm(prev.opcode) = 10) =>
        IF \A k \in DOMAIN key : key[k] = 0
        THEN /\ panicked = "none"
             /\ program_counter = prev.program_counter
             /\ register = prev.register
        ELSE /\ panicked = "none"
             /\ \E k \in DOMAIN key :
                    key[k] # 0 /\ register[RegX(prev.opcode)] = k
             /\ program_counter = prev.program_counter + 2

\* C14: right after Cpu::new, memory 0..79 holds the font and every other
\* byte of memory is 0, the registers, the address register, the timers, the
\* stack, the stack pointer, the keys, the framebuffer and the opcode are 0
\* and the program counter is 0x200.
C14_InitialState ==
    phase = "new" =>
        /\ \A a \in 0..4095 :
               ReadCell(memory, a) = (IF a <= 79 THEN FONTSET[a + 1] ELSE 0)
        /\ DOMAIN memory \subseteq 0..4095
        /\ register = [i \in 0..15 |-> 0]
        /\ address_register = 0
        /\ delay_timer = 0
        /\ sound_timer = 0
        /\ stack = [i \in 0..15 |-> 0]
        /\ stack_pointer = 0
        /\ key = [i \in 0..15 |-> 0]
        /\ \A i \in 0..2047 : ReadCell(graphics, i) = 0
        /\ DOMAIN graphics \subseteq 0..2047
        /\ opcode = 0
        /\ program_counter = 512
        /\ panicked = "none"

\* a machine just constructed: the last byte of the font is in place and the
\* byte after it is 0
C14_Witness ==
    /\ phase = "new"
    /\ last = "new"
    /\ ReadCell(memory, 0) = 240
    /\ ReadCell(memory, 79) = 128
    /\ ReadCell(memory, 80) = 0
    /\ program_counter = 512

\* the flag the instruction table gives each of the four handlers, from the
\* values vx and vy of before
Flag(name, vx, vy) ==
    CASE name = "sub_vx_vy" -> IF vx >= vy THEN 1 ELSE 0
      [] name = "shr_vx" -> vx % 2
      [] name = "sub_vy_vx" -> IF vy >= vx THEN 1 ELSE 0
      [] name = "shl_vx" -> vx \div 128

\* C15: 8XY5, 8XY6, 8XY7 and 8XYE called with X = F leave the flag in VF, not
\* the result of the subtraction or of the shift.
C15_FlagWinsInVF ==
    (last \in {"sub_vx_vy", "shr_vx", "sub_vy_vx", "shl_vx"} /\ args[1] = 15) =>
        register[15] = Flag(last, prev.register[15], prev.register[args[2]])

\* C16: 8XYE with X not F completes, leaves in VF the most significant bit of
\* the VX of before as 0 or 1, never another value, and VX = (VX << 1) mod 256.
C16_ShiftLeftFlag ==
    (last = "shl_vx" /\ args[1] # 15) =>
        LET vx == prev.register[args[1]]
        IN  /\ panicked = "none"
            /\ register[15] \in {0, 1}
            /\ register[15] = vx \div 128
            /\ register[args[1]] = (vx * 2) % 256

RECURSIVE BitXor(_, _)
\* a ^ b on naturals
BitXor(a, b) ==
    IF a = 0 /\ b = 0 THEN 0
    ELSE ((a + b) % 2) + 2 * BitXor(a \div 2, b \div 2)

\* C17: 8XY3 leaves VX = VX xor VY of the values before, and the other
\* registers (VF too, when X is not F) as they were.
C17_Xor ==
    last = "set_vx_xor" =>
        /\ panicked = "none"
        /\ register = [prev.register EXCEPT
                          ![args[1]] = BitXor(@, prev.register[args[2]])]

C19_FontKept ==
    \A a \in 0..79 : ReadCell(memory, a) = FONTSET[a + 1]

\* a program has been stepped down to the handler that clears a large array,
\* and the font is in place
C19_Witness ==
    /\ last = "clear_screen"
    /\ panicked = "none"
    /\ phase = "fetch"
    /\ \A a \in 0..79 : ReadCell(memory, a) = FONTSET[a + 1]

\* C20: a fetch at a program counter in 0..4094 completes, leaves
\* opcode = memory[PC] * 256 + memory[PC + 1] and changes nothing else; a fetch
\* at 4095 or beyond, whose second byte (or both) is outside memory, faults
\* and reads no other value.
C20_Fetch ==
    [][last' = "cycle" =>
           IF program_counter \in 0..4094
           THEN /\ panicked' = "none"
                /\ opcode' = ReadCell(memory, program_counter) * 256
                                + ReadCell(memory, program_counter + 1)
                /\ UNCHANGED <<memory, register, address_register,
                               program_counter, graphics, delay_timer,
                               sound_timer, stack, stack_pointer, key>>
           ELSE /\ panicked' = IndexOutOfBounds
                /\ UNCHANGED cpu_vars]_vars

\* the fetch of the last two bytes of memory, 0x00 and 0xE0
C20_Witness ==
    /\ last = "cycle"
    /\ prev.program_counter = 4094
    /\ program_counter = 4094
    /\ ReadCell(memory, 4095) = 224
    /\ opcode = 224
    /\ panicked = "none"

\* the fetch at 4095, whose second byte is outside memory
C20_WitnessFault ==
    /\ last = "cycle"
    /\ program_counter = 4095
    /\ panicked = IndexOutOfBounds

====
